---- MODULE Spec2Model ----
(***************************************************************************)
(* A model of the RoraOS example relay and its stream decoders.            *)
(*                                                                         *)
(*   - the Express proxy (express_server.js): POST /api/chat,              *)
(*     POST /api/chat/stream and the utility endpoints, one relay session  *)
(*     per client request;                                                 *)
(*   - the client-side stream decoders (chatCompletionStream,              *)
(*     agentChatStream, useChat's sendStreamingRequest), which read the    *)
(*     relayed byte stream chunk by chunk.                                 *)
(*                                                                         *)
(* JavaScript values are modelled as strings, with UNDEF and NULL standing *)
(* for undefined and null; a text is a sequence of one-character strings.  *)
(***************************************************************************)
EXTENDS Integers, Sequences, FiniteSets, TLC

\* ------------------------------------------------------------------ bounds

\* Upstream chunks delivered to one streaming session.
MaxChunks == 3

\* ------------------------------------------------------- JavaScript values

UNDEF == "<undefined>"
NULL == "<null>"

\* !v for the scalar values of the model.
Falsy(v) == v \in {UNDEF, NULL, ""}

\* a || b
Or(a, b) == IF Falsy(a) THEN b ELSE a

IsPrefix(p, q) == Len(p) <= Len(q) /\ SubSeq(q, 1, Len(p)) = p

\* ----------------------------------------------------------------- inputs

SessionIds == {1, 2}

Endpoints == {"chat", "stream", "summarize", "translate", "code"}
Utilities == {"summarize", "translate", "code"}

\* req.body.messages: absent, null, a string, an object, or an array.
MessagesValues ==
    {[kind |-> k, items |-> <<>>] : k \in {"undefined", "null", "string", "object"}}
    \cup {[kind |-> "array", items |-> i] : i \in {<<>>, <<"u1">>, <<"s1", "u1">>}}

NoMessages == [kind |-> "undefined", items |-> <<>>]

\* req.body.text / req.body.prompt of the utility endpoints.
TextValues == {UNDEF, "", "some text"}

\* req.body.model
ModelValues == {UNDEF, "gpt-4-turbo"}

\* req.body.temperature and req.body.max_tokens; numbers are written as
\* their decimal text.
TemperatureValues == {UNDEF, NULL, "0", "1.2"}

MaxTokensValues == {UNDEF, "0", "100"}

OptionValues == [temperature : TemperatureValues, max_tokens : MaxTokensValues]

NoOptions == [temperature |-> UNDEF, max_tokens |-> UNDEF]

\* No outbound request body: no axios.post was issued.
NoPayload ==
    [messages |-> [kind |-> "undefined", items |-> <<>>], model |-> UNDEF,
     temperature |-> UNDEF, max_tokens |-> UNDEF, stream |-> UNDEF]

\* A request header: absent, or a value made of parts ("" has none). A value
\* that starts with "Bearer " has that prefix as its first part.
AbsentHeader == [present |-> FALSE, parts |-> <<>>]
Header(parts) == [present |-> TRUE, parts |-> parts]

\* req.headers["x-api-key"]
XApiKeyValues ==
    {AbsentHeader, Header(<<>>), Header(<<"key-x">>), Header(<<"Bearer ", "key-b">>)}

\* req.headers["authorization"]
AuthorizationValues ==
    {AbsentHeader, Header(<<"Bearer ", "tok-a">>), Header(<<"tok-raw">>)}

HeaderValues == [xApiKey : XApiKeyValues, authorization : AuthorizationValues]

NoHeaders == [xApiKey |-> AbsentHeader, authorization |-> AbsentHeader]

\* RORAOS_API_KEY
DefaultKey == <<"your-api-key-here">>

\* timeout: 120000
TimeoutMs == 120000

\* The body of a successful buffered upstream response.
SuccessData ==
    [kind : {"object"},
     choices : {<<>>, <<"Hello">>},
     model : {UNDEF, "upstream-model"},
     usage : {UNDEF, "usage-record"},
     error : {UNDEF}]

\* The body of a rejected upstream response (error.response.data).
RejectedData ==
    [kind : {"object"}, choices : {<<>>}, model : {UNDEF}, usage : {UNDEF},
     error : {UNDEF, "", "rate limited"}]
    \cup [kind : {"null", "string"}, choices : {<<>>}, model : {UNDEF},
          usage : {UNDEF}, error : {UNDEF}]

NoData == [kind |-> "none", choices |-> <<>>, model |-> UNDEF, usage |-> UNDEF,
           error |-> UNDEF]

RejectStatuses == {400, 429, 503}

\* What axios.post settles with.
Outcomes ==
    [kind : {"ok"}, status : {200}, data : SuccessData]
    \cup [kind : {"rejected"}, status : RejectStatuses, data : RejectedData]
    \cup [kind : {"unreachable", "timeout"}, status : {0}, data : {NoData}]

NoOutcome == [kind |-> "none", status |-> 0, data |-> NoData]

\* The chunks an upstream stream emits (opaque buffers to the relay).
ChunkValues == {"c1", "c2"}

\* -------------------------------------------------------------- responses

NoBody == [kind |-> "none", error |-> UNDEF, content |-> UNDEF, model |-> UNDEF,
           usage |-> UNDEF]

ErrorBody(m) == [NoBody EXCEPT !.kind = "error", !.error = m]

IdleSession ==
    [pc |-> "idle",
     endpoint |-> "none",
     messages |-> NoMessages,
     text |-> UNDEF,
     model |-> UNDEF,
     options |-> NoOptions,
     headers |-> NoHeaders,
     upstreamCalls |-> 0,
     payload |-> NoPayload,
     upstreamOpen |-> FALSE,
     credential |-> <<>>,
     deadline |-> 0,
     outcome |-> NoOutcome,
     sseHeaders |-> FALSE,
     headersSent |-> FALSE,
     status |-> 0,
     body |-> NoBody,
     responses |-> 0,
     received |-> <<>>,
     sink |-> <<>>,
     ends |-> 0,
     streamEnd |-> "none",
     delivered |-> 0,
     clientOpen |-> TRUE,
     lateWrites |-> 0,
     unhandled |-> FALSE]

\* session: the relay sessions of the Express proxy, by session id.
\* decoder: one run of a client-side stream decoder.
\* hook: one instance of the useChat React hook.
VARIABLES session, decoder, hook

vars == <<session, decoder, hook>>

\* res.status(code).json(body): one complete response.
SendJson(sess, code, body) ==
    [sess EXCEPT !.status = code, !.body = body, !.headersSent = TRUE,
                 !.responses = @ + 1, !.ends = @ + 1]

\* res.end()
EndResponse(sess) ==
    [sess EXCEPT !.headersSent = TRUE, !.ends = @ + 1,
                 !.status = IF sess.headersSent THEN @ ELSE 200]

\* --------------------------------------------------------------- getApiKey

\* !header
HeaderFalsy(h) == ~h.present \/ h.parts = <<>>

\* authHeader.startsWith("Bearer ")
StartsWithBearer(h) == h.parts # <<>> /\ h.parts[1] = "Bearer "

\* A getApiKey that looks at the authorization header first.
GetApiKey_AuthorizationFirst(headers) ==
    LET authHeader == IF HeaderFalsy(headers.authorization)
                      THEN headers.xApiKey
                      ELSE headers.authorization
    IN  IF ~HeaderFalsy(authHeader) /\ StartsWithBearer(authHeader)
        THEN Tail(authHeader.parts)
        ELSE IF HeaderFalsy(authHeader) THEN DefaultKey ELSE authHeader.parts

\* getApiKey(req): the x-api-key header or else the authorization header,
\* without a leading "Bearer "; the default key when both are missing.
GetApiKey(headers) ==
    LET authHeader == IF HeaderFalsy(headers.xApiKey)
                      THEN headers.authorization
                      ELSE headers.xApiKey
    IN  IF ~HeaderFalsy(authHeader) /\ StartsWithBearer(authHeader)
        THEN Tail(authHeader.parts)
        ELSE IF HeaderFalsy(authHeader) THEN DefaultKey ELSE authHeader.parts

\* Only /api/chat and /api/chat/stream pass a timeout to axios.
HasTimeout(ep) == ep \in {"chat", "stream"}

\* The timeout option of the axios call (axios' default, 0, is no timeout).
Deadline(ep) == IF HasTimeout(ep) THEN TimeoutMs ELSE 0

\* axios.post(RORAOS_API_URL, payload, {headers: {Authorization: `Bearer
\* ${apiKey}`}, timeout}): the call is issued and the handler suspends.
IssueUpstreamCall(sess, payload) ==
    [sess EXCEPT !.pc = "awaiting", !.upstreamCalls = @ + 1,
                 !.upstreamOpen = TRUE,
                 !.payload = payload,
                 !.credential = GetApiKey(sess.headers),
                 !.deadline = Deadline(sess.endpoint)]

\* ------------------------------------------------- POST /api/chat (buffered)

\* A default that replaces whatever the client sent.
DefaultTo_Always(v, d) == d

\* const { model = "gpt-4o" } = req.body: the default replaces undefined only.
DefaultTo(v, d) == IF v = UNDEF THEN d ELSE v

\* The destructuring of req.body with its defaults, and the body of the
\* outbound request built from it.
BuildPayload(messages, model, options, stream) ==
    [messages |-> messages,
     model |-> DefaultTo(model, "gpt-4o"),
     temperature |-> DefaultTo(options.temperature, "0.7"),
     max_tokens |-> DefaultTo(options.max_tokens, "2000"),
     stream |-> stream]

\* The check without its Array.isArray half.
MessagesRejected_TruthyOnly(messages) == messages.kind \in {"undefined", "null"}

\* if (!messages || !Array.isArray(messages))
MessagesRejected(messages) ==
    messages.kind \in {"undefined", "null"} \/ messages.kind # "array"

\* The handler of /api/chat up to its await of axios.post.
ChatEntry(sess, messages, model, options, headers) ==
    LET r == [sess EXCEPT !.endpoint = "chat", !.messages = messages,
                          !.model = model, !.options = options,
                          !.headers = headers]
    IN  IF MessagesRejected(messages)
        THEN [SendJson(r, 400, ErrorBody("messages array is required"))
                  EXCEPT !.pc = "finished"]
        ELSE IssueUpstreamCall(r, BuildPayload(messages, model, options, FALSE))

\* A result that always names the model the client asked for.
ChatResult_RequestedModel(data, model) ==
    [NoBody EXCEPT !.kind = "result",
                   !.content = data.choices[1],
                   !.model = DefaultTo(model, "gpt-4o"),
                   !.usage = data.usage]

\* res.json({content, model, usage}) of /api/chat.
ChatResult(data, model) ==
    [NoBody EXCEPT !.kind = "result",
                   !.content = data.choices[1],
                   !.model = Or(data.model, DefaultTo(model, "gpt-4o")),
                   !.usage = data.usage]

\* The catch block of /api/chat/stream in the place of that of /api/chat.
ChatCatch_Generic(sess, outcome) ==
    SendJson(sess, 500, ErrorBody("Internal server error"))

\* The catch block of /api/chat. A null error.response.data makes the
\* catch block itself throw (TypeError): no response is sent.
ChatCatch(sess, outcome) ==
    IF outcome.kind = "rejected"
    THEN IF outcome.data.kind = "null"
         THEN [sess EXCEPT !.unhandled = TRUE]
         ELSE SendJson(sess, outcome.status,
                       ErrorBody(Or(outcome.data.error, "API request failed")))
    ELSE SendJson(sess, 500, ErrorBody("Internal server error"))

\* The handler of /api/chat from the settling of axios.post to its end.
\* response.data.choices[0].message.content throws when there is no first
\* choice; the catch block then sees an error without a response.
ChatSettle(sess, outcome) ==
    LET r == [sess EXCEPT !.outcome = outcome, !.pc = "finished",
                          !.upstreamOpen = FALSE]
    IN  IF outcome.kind = "ok"
        THEN IF outcome.data.choices = <<>>
             THEN ChatCatch(r, [outcome EXCEPT !.kind = "thrown"])
             ELSE SendJson(r, 200, ChatResult(outcome.data, sess.model))
        ELSE ChatCatch(r, outcome)

\* ---------------------------------------- POST /api/chat/stream (streaming)

\* A handler that leaves the response headers to the first write.
SetStreamHeaders_Deferred(sess) == sess

\* res.setHeader("Content-Type", "text/event-stream") and the two others.
SetStreamHeaders(sess) == [sess EXCEPT !.sseHeaders = TRUE]

\* The handler of /api/chat/stream up to its await of axios.post: the
\* validation, then the three res.setHeader calls, then the upstream call.
StreamEntry(sess, messages, model, options, headers) ==
    LET r == [sess EXCEPT !.endpoint = "stream", !.messages = messages,
                          !.model = model, !.options = options,
                          !.headers = headers]
    IN  IF MessagesRejected(messages)
        THEN [SendJson(r, 400, ErrorBody("messages array is required"))
                  EXCEPT !.pc = "finished"]
        ELSE IssueUpstreamCall(SetStreamHeaders(r),
                               BuildPayload(messages, model, options, TRUE))

\* A catch block that closes the response whatever was sent.
StreamCatch_EndOnly(sess, outcome) == EndResponse(sess)

\* The catch block of /api/chat/stream.
StreamCatch(sess, outcome) ==
    IF ~sess.headersSent
    THEN SendJson(sess, 500, ErrorBody("Internal server error"))
    ELSE EndResponse(sess)

\* The handler of /api/chat/stream from the settling of axios.post: on
\* success the three listeners are attached and the handler returns. With
\* responseType "stream" a rejected response's body is an unread stream,
\* which the handler never consumes or destroys.
StreamSettle(sess, outcome) ==
    LET r == [sess EXCEPT !.outcome = outcome] IN
    IF outcome.kind = "ok"
    THEN [r EXCEPT !.pc = "streaming"]
    ELSE [StreamCatch(r, outcome)
              EXCEPT !.pc = "finished",
                     !.upstreamOpen = (outcome.kind = "rejected")]

\* res.write(chunk.toString()): a chunk that ends inside a multi-byte
\* character comes out changed.
ForwardChunk_Decoded(chunk) == IF chunk = "c2" THEN "c2-replaced" ELSE chunk

\* What the "data" listener passes to res.write.
ForwardChunk(chunk) == chunk

\* res.write(data): the data is queued on the response, whatever the client
\* has taken so far; the boolean that write returns is dropped.
WriteChunk(sess, data) ==
    [sess EXCEPT !.sink = Append(@, data),
                 !.headersSent = TRUE,
                 !.status = IF sess.headersSent THEN @ ELSE 200,
                 !.lateWrites = IF sess.clientOpen THEN @ ELSE @ + 1]

\* A res kept in one place for all requests: the first request's.
Res_ModuleLevel(s) == 1

\* The res that the three listeners of request s close over: its own.
Res(s) == s

\* response.data.on("data", (chunk) => res.write(chunk))
StreamOnData(sessions, s, chunk) ==
    [sessions EXCEPT ![s].received = Append(@, chunk),
                     ![Res(s)] = WriteChunk(@, ForwardChunk(chunk))]

\* The upstream body stream of request s is over.
StreamOver(sess, how) ==
    [sess EXCEPT !.pc = "finished", !.streamEnd = how, !.upstreamOpen = FALSE]

\* response.data.on("end", () => res.end())
StreamOnEnd(sessions, s) ==
    [sessions EXCEPT ![s] = StreamOver(@, "end"),
                     ![Res(s)] = EndResponse(@)]

\* An "error" listener that answers like the catch block of /api/chat.
StreamOnError_Json(sessions, s) ==
    [sessions EXCEPT ![s] = StreamOver(@, "error"),
                     ![s] = SendJson(@, 500, ErrorBody("Internal server error"))]

\* An "error" listener that only logs.
StreamOnError_LogOnly(sessions, s) ==
    [sessions EXCEPT ![s] = StreamOver(@, "error")]

\* response.data.on("error", (err) => { console.error(...); res.end() })
StreamOnError(sessions, s) ==
    [sessions EXCEPT ![s] = StreamOver(@, "error"),
                     ![Res(s)] = EndResponse(@)]

\* ----------------------------- /api/summarize, /api/translate, /api/code/generate

UtilityRequired(ep) == IF ep = "code" THEN "prompt is required" ELSE "text is required"

UtilityFailed(ep) ==
    CASE ep = "summarize" -> "Failed to summarize"
      [] ep = "translate" -> "Failed to translate"
      [] OTHER -> "Failed to generate code"

\* if (!text) / if (!prompt)
TextRejected(text) == Falsy(text)

\* The body of a utility's outbound request: a system prompt composed from
\* the options, then the user's text; fixed model and sampling; no stream.
UtilityPayload(ep, text) ==
    [messages |-> [kind |-> "array", items |-> <<"system prompt", text>>],
     model |-> "gpt-4o",
     temperature |-> "0.3",
     max_tokens |-> CASE ep = "summarize" -> "500"
                      [] ep = "translate" -> "1000"
                      [] OTHER -> "2000",
     stream |-> UNDEF]

\* A utility handler up to its await of axios.post.
UtilityEntry(sess, ep, text, headers) ==
    LET r == [sess EXCEPT !.endpoint = ep, !.text = text, !.headers = headers] IN
    IF TextRejected(text)
    THEN [SendJson(r, 400, ErrorBody(UtilityRequired(ep))) EXCEPT !.pc = "finished"]
    ELSE IssueUpstreamCall(r, UtilityPayload(ep, text))

\* A utility handler from the settling of axios.post: every error, also the
\* TypeError of a missing first choice, ends in the same catch block.
UtilitySettle(sess, outcome) ==
    LET r == [sess EXCEPT !.outcome = outcome, !.pc = "finished",
                          !.upstreamOpen = FALSE]
    IN  IF outcome.kind = "ok" /\ outcome.data.choices # <<>>
        THEN SendJson(r, 200, [NoBody EXCEPT !.kind = "result",
                                             !.content = outcome.data.choices[1]])
        ELSE SendJson(r, 500, ErrorBody(UtilityFailed(sess.endpoint)))

\* ---------------------------------------------------------------- actions

\* A request arrives; its body and headers are drawn from the given sets.
ChatRequestOf(s, Msgs, Models, Opts, Hdrs) ==
    /\ session[s].pc = "idle"
    /\ \E messages \in Msgs, model \in Models, options \in Opts, headers \in Hdrs :
         session' = [session EXCEPT ![s] =
                         ChatEntry(@, messages, model, options, headers)]
    /\ UNCHANGED <<decoder, hook>>

StreamRequestOf(s, Msgs, Models, Opts, Hdrs) ==
    /\ session[s].pc = "idle"
    /\ \E messages \in Msgs, model \in Models, options \in Opts, headers \in Hdrs :
         session' = [session EXCEPT ![s] =
                         StreamEntry(@, messages, model, options, headers)]
    /\ UNCHANGED <<decoder, hook>>

UtilityRequestOf(s, Texts, Hdrs) ==
    /\ session[s].pc = "idle"
    /\ \E ep \in Utilities, text \in Texts, headers \in Hdrs :
         session' = [session EXCEPT ![s] = UtilityEntry(@, ep, text, headers)]
    /\ UNCHANGED <<decoder, hook>>

\* axios.post settles: resolved, rejected by upstream, unreachable, or timed
\* out (which needs a timeout to have been passed).
UpstreamSettlesOf(s, Outs) ==
    /\ session[s].pc = "awaiting"
    /\ \E outcome \in Outs :
         /\ outcome.kind = "timeout" => session[s].deadline > 0
         /\ session' = [session EXCEPT ![s] =
                CASE @.endpoint = "chat" -> ChatSettle(@, outcome)
                  [] @.endpoint = "stream" -> StreamSettle(@, outcome)
                  [] OTHER -> UtilitySettle(@, outcome)]
    /\ UNCHANGED <<decoder, hook>>

\* The upstream body stream emits "data"; it is in flowing mode from the
\* moment the listener is attached and is never paused.
UpstreamDataOf(s, Chunks) ==
    /\ session[s].pc = "streaming"
    /\ Len(session[s].received) < MaxChunks
    /\ \E chunk \in Chunks : session' = StreamOnData(session, s, chunk)
    /\ UNCHANGED <<decoder, hook>>

ChatRequest(s) ==
    ChatRequestOf(s, MessagesValues, ModelValues, {NoOptions}, {NoHeaders})

StreamRequest(s) ==
    StreamRequestOf(s, MessagesValues, ModelValues, {NoOptions}, {NoHeaders})

UtilityRequest(s) == UtilityRequestOf(s, TextValues, {NoHeaders})

UpstreamSettles(s) == UpstreamSettlesOf(s, Outcomes)

UpstreamData(s) == UpstreamDataOf(s, ChunkValues)

UpstreamEnd(s) ==
    /\ session[s].pc = "streaming"
    /\ session' = StreamOnEnd(session, s)
    /\ UNCHANGED <<decoder, hook>>

UpstreamError(s) ==
    /\ session[s].pc = "streaming"
    /\ session' = StreamOnError(session, s)
    /\ UNCHANGED <<decoder, hook>>

\* The client's connection closes. No handler listens for it.
ClientClose(s) ==
    /\ session[s].pc \in {"awaiting", "streaming"}
    /\ session[s].clientOpen
    /\ session' = [session EXCEPT ![s].clientOpen = FALSE]
    /\ UNCHANGED <<decoder, hook>>

\* The client takes the next written chunk off its connection.
ClientReceives(s) ==
    /\ session[s].clientOpen
    /\ session[s].delivered < Len(session[s].sink)
    /\ session' = [session EXCEPT ![s].delivered = @ + 1]
    /\ UNCHANGED <<decoder, hook>>

\* =========================================================== stream decoders
\* chatCompletionStream, agentChatStream and useChat's sendStreamingRequest.
\* A text is a sequence of one-character strings.

\* Records of one upstream stream.
MaxRecords == 3

LF == "\n"

\* "data: "
Prefix == <<"d", "a", "t", "a", ":", " ">>

\* "[DONE]"
Sentinel == <<"[", "D", "O", "N", "E", "]">>

TextHel == <<"H", "e", "l">>
TextLo == <<"l", "o">>

\* data: {"content":"<text>"}
ContentRecord(text) ==
    Prefix \o <<"{", "\"", "c", "o", "n", "t", "e", "n", "t", "\"", ":", "\"">>
           \o text \o <<"\"", "}">>

RecHel == ContentRecord(TextHel)
RecLo == ContentRecord(TextLo)

\* data: [DONE]
RecDone == Prefix \o Sentinel

\* data: {not json
RecBad == 
    <<"d", "a", "t", "a", ":", " ", "{", "n", "o", "t", " ", "j", "s", "o",
      "n">>

\* data: {"choices":[{"delta":{"content":"lo"}}]}
RecDelta == 
    <<"d", "a", "t", "a", ":", " ", "{", "\"", "c", "h", "o", "i", "c", "e",
      "s", "\"", ":", "[", "{", "\"", "d", "e", "l", "t", "a", "\"", ":",
      "{", "\"", "c", "o", "n", "t", "e", "n", "t", "\"", ":", "\"", "l",
      "o", "\"", "}", "}", "]", "}">>

\* data: {"content":""}
RecEmpty == 
    <<"d", "a", "t", "a", ":", " ", "{", "\"", "c", "o", "n", "t", "e", "n",
      "t", "\"", ":", "\"", "\"", "}">>

\* : ping   (a comment line, without the event prefix)
RecComment == <<":", " ", "p", "i", "n", "g">>

\* The records a stub upstream emits, each newline-terminated.
RecordValues == {RecHel, RecLo, RecDone, RecBad, RecDelta, RecEmpty, RecComment}

UpstreamStreams ==
    UNION {[1..n -> RecordValues] : n \in 1..MaxRecords}

RECURSIVE Concat(_)
Concat(seqs) == IF seqs = <<>> THEN <<>> ELSE Head(seqs) \o Concat(Tail(seqs))

\* The bytes of a record stream: every record followed by a newline.
Bytes(lines) == Concat([i \in 1..Len(lines) |-> Append(lines[i], LF)])

\* ------------------------------------------------------------- JSON.parse

JUndef == [t |-> "undefined", s |-> <<>>, m |-> <<>>]
JLit(name) == [t |-> name, s |-> <<>>, m |-> <<>>]
JStr(cs) == [t |-> "string", s |-> cs, m |-> <<>>]
JNum(ds) == [t |-> "number", s |-> ds, m |-> <<>>]
JObj(members) == [t |-> "object", s |-> <<>>, m |-> members]
JArr(elems) == [t |-> "array", s |-> <<>>, m |-> elems]

ParseFail == [ok |-> FALSE, v |-> JUndef, n |-> 0]
Parsed(v, n) == [ok |-> TRUE, v |-> v, n |-> n]

Digits == {"0", "1", "2", "3", "4", "5", "6", "7", "8", "9"}

Min(S) == CHOOSE x \in S : \A y \in S : x <= y

\* The first index at or after i that holds no space (Len(s) + 1 if none).
SkipSpace(s, i) == Min({j \in i..(Len(s) + 1) : j = Len(s) + 1 \/ s[j] # " "})

\* The first index at or after i that holds no digit.
SkipDigits(s, i) == Min({j \in i..(Len(s) + 1) : j = Len(s) + 1 \/ s[j] \notin Digits})

Matches(s, i, word) ==
    i + Len(word) - 1 <= Len(s) /\ SubSeq(s, i, i + Len(word) - 1) = word

\* A string literal at i (escapes are outside the model: a backslash fails).
ParseString(s, i) ==
    IF i > Len(s) \/ s[i] # "\""
    THEN ParseFail
    ELSE LET close == {j \in (i + 1)..Len(s) : s[j] = "\""} IN
         IF close = {}
         THEN ParseFail
         ELSE LET j == Min(close)
                  body == SubSeq(s, i + 1, j - 1)
              IN  IF \E k \in 1..Len(body) : body[k] = "\\"
                  THEN ParseFail
                  ELSE Parsed(JStr(body), j + 1)

RECURSIVE ParseValue(_, _), ParseMembers(_, _, _), ParseElements(_, _, _)

\* The JSON value starting at i, and the index after it.
ParseValue(s, i) ==
    IF i > Len(s) THEN ParseFail
    ELSE CASE s[i] = "\"" -> ParseString(s, i)
           [] s[i] = "{" ->
                IF SkipSpace(s, i + 1) <= Len(s) /\ s[SkipSpace(s, i + 1)] = "}"
                THEN Parsed(JObj(<<>>), SkipSpace(s, i + 1) + 1)
                ELSE ParseMembers(s, SkipSpace(s, i + 1), <<>>)
           [] s[i] = "[" ->
                IF SkipSpace(s, i + 1) <= Len(s) /\ s[SkipSpace(s, i + 1)] = "]"
                THEN Parsed(JArr(<<>>), SkipSpace(s, i + 1) + 1)
                ELSE ParseElements(s, SkipSpace(s, i + 1), <<>>)
           [] s[i] \in Digits -> Parsed(JNum(SubSeq(s, i, SkipDigits(s, i) - 1)),
                                        SkipDigits(s, i))
           [] Matches(s, i, <<"n", "u", "l", "l">>) -> Parsed(JLit("null"), i + 4)
           [] Matches(s, i, <<"t", "r", "u", "e">>) -> Parsed(JLit("true"), i + 4)
           [] Matches(s, i, <<"f", "a", "l", "s", "e">>) -> Parsed(JLit("false"), i + 5)
           [] OTHER -> ParseFail

\* The members of an object from the key at i on, after the members acc.
ParseMembers(s, i, acc) ==
    LET key == ParseString(s, i) IN
    IF ~key.ok THEN ParseFail
    ELSE LET colon == SkipSpace(s, key.n) IN
         IF colon > Len(s) \/ s[colon] # ":" THEN ParseFail
         ELSE LET val == ParseValue(s, SkipSpace(s, colon + 1)) IN
              IF ~val.ok THEN ParseFail
              ELSE LET next == SkipSpace(s, val.n)
                       all == Append(acc, [k |-> key.v.s, v |-> val.v])
                   IN  IF next > Len(s) THEN ParseFail
                       ELSE IF s[next] = "}" THEN Parsed(JObj(all), next + 1)
                       ELSE IF s[next] = ","
                            THEN ParseMembers(s, SkipSpace(s, next + 1), all)
                       ELSE ParseFail

\* The elements of an array from the value at i on, after the elements acc.
ParseElements(s, i, acc) ==
    LET val == ParseValue(s, i) IN
    IF ~val.ok THEN ParseFail
    ELSE LET next == SkipSpace(s, val.n)
             all == Append(acc, val.v)
         IN  IF next > Len(s) THEN ParseFail
             ELSE IF s[next] = "]" THEN Parsed(JArr(all), next + 1)
             ELSE IF s[next] = ","
                  THEN ParseElements(s, SkipSpace(s, next + 1), all)
             ELSE ParseFail

\* JSON.parse(text): ok is FALSE where JSON.parse throws a SyntaxError.
JSONParse(text) ==
    LET r == ParseValue(text, SkipSpace(text, 1)) IN
    IF r.ok /\ SkipSpace(text, r.n) = Len(text) + 1 THEN r ELSE ParseFail

\* --------------------------------------------------------- property access

Nullish(v) == v.t \in {"undefined", "null"}

\* v[key] for a value that is not nullish (the last duplicate key wins).
Get(v, key) ==
    IF v.t # "object" THEN JUndef
    ELSE LET hits == {i \in 1..Len(v.m) : v.m[i].k = key} IN
         IF hits = {} THEN JUndef
         ELSE v.m[CHOOSE i \in hits : \A j \in hits : j <= i].v

\* v?.[0]
OptFirst(v) ==
    IF Nullish(v) THEN JUndef
    ELSE IF v.t = "array" THEN (IF v.m = <<>> THEN JUndef ELSE v.m[1])
    ELSE IF v.t = "string" THEN (IF v.s = <<>> THEN JUndef ELSE JStr(<<v.s[1]>>))
    ELSE Get(v, <<"0">>)

\* v?.key
OptGet(v, key) == IF Nullish(v) THEN JUndef ELSE Get(v, key)

\* Boolean(v)
Truthy(v) ==
    CASE v.t \in {"undefined", "null", "false"} -> FALSE
      [] v.t = "string" -> v.s # <<>>
      [] v.t = "number" -> \E i \in 1..Len(v.s) : v.s[i] # "0"
      [] OTHER -> TRUE

\* a || b on JSON values
JOr(a, b) == IF Truthy(a) THEN a ELSE b

KeyContent == <<"c", "o", "n", "t", "e", "n", "t">>
KeyChoices == <<"c", "h", "o", "i", "c", "e", "s">>
KeyDelta == <<"d", "e", "l", "t", "a">>

\* parsed.content || parsed.choices?.[0]?.delta?.content || ""
ExtractContentOrDelta(parsed) ==
    JOr(JOr(Get(parsed, KeyContent),
            OptGet(OptGet(OptFirst(Get(parsed, KeyChoices)), KeyDelta), KeyContent)),
        JStr(<<>>))

\* parsed.content || ""
ExtractContentOnly(parsed) == JOr(Get(parsed, KeyContent), JStr(<<>>))

\* The text appended by fullContent += content. The stub records carry
\* string contents; a number is appended as its digits.
ToText(v) == v.s

\* ----------------------------------------------------------- the decoders

DecoderKinds == {"chatCompletionStream", "agentChatStream", "sendStreamingRequest"}

\* The content probe of each decoder.
Extract(kind, parsed) ==
    IF kind = "agentChatStream"
    THEN ExtractContentOnly(parsed)
    ELSE ExtractContentOrDelta(parsed)

\* What the sentinel does to the loop over the lines of one chunk:
\* `break` in chatCompletionStream and agentChatStream, `continue` in useChat.
SentinelLeavesLineLoop(kind) == kind # "sendStreamingRequest"

RECURSIVE SplitLines(_)
\* chunk.split("\n")
SplitLines(chunk) ==
    LET nl == {i \in 1..Len(chunk) : chunk[i] = LF} IN
    IF nl = {} THEN <<chunk>>
    ELSE <<SubSeq(chunk, 1, Min(nl) - 1)>>
         \o SplitLines(SubSeq(chunk, Min(nl) + 1, Len(chunk)))

\* line.startsWith("data: ")
StartsWithPrefix(line) == Matches(line, 1, Prefix)

\* line.slice(6)
Payload(line) == SubSeq(line, Len(Prefix) + 1, Len(line))

\* Offsets in a line at which a read may end before the line does: inside
\* the "data: " prefix and inside the payload.
SplitOffsets == {3, 12}

\* The number of bytes before position p that follow the last newline.
OffsetInLine(bytes, p) ==
    LET nl == {i \in 1..p : bytes[i] = LF} IN
    IF nl = {} THEN p ELSE p - (CHOOSE i \in nl : \A j \in nl : j <= i)

\* The positions at which a read may end: after any newline, and in the
\* middle of a line at the split offsets.
ReadEnds(bytes) ==
    {p \in 1..Len(bytes) : bytes[p] = LF \/ OffsetInLine(bytes, p) \in SplitOffsets}

\* lines, bytes: the upstream records and the byte stream they make;
\* ends: the positions at which a read of this stream may end;
\* pos: the bytes read so far; aligned: every read so far ended at a line end;
\* sawDone: the sentinel branch was taken; lateDeltas, lateRead: deltas
\* emitted and a read issued after that.
IdleDecoder ==
    [kind |-> "none", lines |-> <<>>, bytes |-> <<>>, ends |-> {},
     pc |-> "idle", pos |-> 0,
     fullContent |-> <<>>, deltas |-> <<>>, thrown |-> FALSE,
     sawDone |-> FALSE, lateDeltas |-> 0, lateRead |-> FALSE,
     aligned |-> TRUE, readFailed |-> FALSE]

\* The decoder after a successful fetch, before its first read.
StartDecoder(kind, lines) ==
    [IdleDecoder EXCEPT !.kind = kind, !.lines = lines, !.bytes = Bytes(lines),
                        !.ends = ReadEnds(Bytes(lines)), !.pc = "reading"]

\* The loop body without its try/catch: the exception leaves the decoder.
SkipInvalid_Rethrow(d) == [d EXCEPT !.thrown = TRUE]

\* catch { /* Skip invalid JSON */ }
SkipInvalid(d) == d

\* A loop body without the if (content) test: every record is written.
EmitDelta_Unconditional(d, content) ==
    [d EXCEPT !.fullContent = @ \o ToText(content),
              !.deltas = Append(@, ToText(content)),
              !.lateDeltas = IF d.sawDone THEN @ + 1 ELSE @]

\* if (content) { fullContent += content; <write the delta> }
EmitDelta(d, content) ==
    IF Truthy(content)
    THEN [d EXCEPT !.fullContent = @ \o ToText(content),
                   !.deltas = Append(@, ToText(content)),
                   !.lateDeltas = IF d.sawDone THEN @ + 1 ELSE @]
    ELSE d

\* The try block on one record's payload. parsed.content of null throws a
\* TypeError, caught like the SyntaxError of JSON.parse.
OnPayload(d, data) ==
    LET p == JSONParse(data) IN
    IF ~p.ok \/ p.v.t = "null"
    THEN SkipInvalid(d)
    ELSE EmitDelta(d, Extract(d.kind, p.v))

RECURSIVE ProcessLines(_, _)
\* for (const line of lines) { ... }
ProcessLines(d, ls) ==
    IF ls = <<>> \/ d.thrown THEN d
    ELSE IF ~StartsWithPrefix(Head(ls)) THEN ProcessLines(d, Tail(ls))
    ELSE IF Payload(Head(ls)) = Sentinel
         THEN IF SentinelLeavesLineLoop(d.kind)
              THEN [d EXCEPT !.sawDone = TRUE]
              ELSE ProcessLines([d EXCEPT !.sawDone = TRUE], Tail(ls))
    ELSE ProcessLines(OnPayload(d, Payload(Head(ls))), Tail(ls))

\* One iteration of while (true) whose read delivers `chunk`.
OnChunk(d, chunk) ==
    LET r == ProcessLines(d, SplitLines(chunk)) IN
    IF r.thrown THEN [r EXCEPT !.pc = "threw"] ELSE r

\* const { done, value } = await reader.read()
IssueRead(d) == [d EXCEPT !.lateRead = d.sawDone]

\* The read delivers the bytes up to position e of the stream.
DecoderRead ==
    /\ decoder.pc = "reading"
    /\ \E e \in decoder.ends :
         /\ e > decoder.pos
         /\ decoder' = OnChunk([IssueRead(decoder) EXCEPT
                                    !.pos = e,
                                    !.aligned = @ /\ decoder.bytes[e] = LF],
                               SubSeq(decoder.bytes, decoder.pos + 1, e))
    /\ UNCHANGED <<session, hook>>

\* The read reports done: the loop is left and fullContent returned.
DecoderReadDone ==
    /\ decoder.pc = "reading"
    /\ decoder.pos = Len(decoder.bytes)
    /\ decoder' = [IssueRead(decoder) EXCEPT !.pc = "returned"]
    /\ UNCHANGED <<session, hook>>

\* The read rejects (the connection failed): the decoder throws.
DecoderReadFails ==
    /\ decoder.pc = "reading"
    /\ decoder' = [IssueRead(decoder) EXCEPT !.pc = "threw", !.readFailed = TRUE]
    /\ UNCHANGED <<session, hook>>

\* ============================================================ useChat hook
\* One instance of the React hook useChat, in one mode (options.stream).

\* Calls of sendMessage on one hook instance.
MaxSends == 2

\* Records with a text in one streamed response body.
MaxReads == 2

RECURSIVE TrimStart(_)
TrimStart(t) == IF t # <<>> /\ Head(t) = " " THEN TrimStart(Tail(t)) ELSE t

RECURSIVE TrimEnd(_)
TrimEnd(t) ==
    IF t # <<>> /\ t[Len(t)] = " " THEN TrimEnd(SubSeq(t, 1, Len(t) - 1)) ELSE t

\* content.trim()
Trim(t) == TrimEnd(TrimStart(t))

\* The argument of sendMessage: blank, or a text with spaces around it.
ContentValues == {<<" ", " ">>, <<" ", "h", "i", " ">>}

\* DEFAULT_SYSTEM_PROMPT, the initial systemPromptRef.current
SystemPrompt == <<"You are a helpful AI assistant.">>

SystemMessage == [role |-> "system", content |-> SystemPrompt]

UserMessage(content) == [role |-> "user", content |-> Trim(content)]

AssistantMessage(text) == [role |-> "assistant", content |-> text]

\* How a fetch settles: an OK response whose body has or lacks a first
\* choice content, a non-OK response with or without an error field, or a
\* rejection (network error).
FetchOutcomes ==
    [kind : {"ok"}, hasContent : BOOLEAN, content : {TextHel}, error : {UNDEF}]
    \cup [kind : {"notOk"}, hasContent : {FALSE}, content : {<<>>},
          error : {UNDEF, "rate limited"}]
    \cup [kind : {"network"}, hasContent : {FALSE}, content : {<<>>},
          error : {UNDEF}]

\* The records a streamed response body delivers, one per read.
HookRecords == {RecHel, RecLo, RecEmpty}

\* The records delivered in the runs with overlapping requests.
OverlapRecords == {RecHel}

\* messages, isLoading, error: the three useState values;
\* view: the messages and isLoading that the sendMessage callback of the
\* last render closes over; requests: the sendMessage calls that passed the
\* guard, in call order; calls, lastContent: the sendMessage calls made and
\* the argument of the last one; cleared: clearMessages ran after the last
\* sendMessage.
IdleHook ==
    [stream |-> FALSE,
     messages |-> <<>>,
     isLoading |-> FALSE,
     error |-> NULL,
     view |-> [messages |-> <<>>, isLoading |-> FALSE],
     requests |-> <<>>,
     calls |-> 0,
     lastContent |-> <<>>,
     onErrorCalls |-> 0,
     onMessageCalls |-> 0,
     cleared |-> FALSE]

\* The requests whose sendMessage has not finished.
InFlight(h) == {i \in 1..Len(h.requests) : h.requests[i].pc # "done"}

\* What the component would render now.
CurrentView(h) == [messages |-> h.messages, isLoading |-> h.isLoading]

\* A guard that only looks at isLoading.
SendIgnored_LoadingOnly(content, isLoading) == isLoading

\* if (!content.trim() || isLoading) return
SendIgnored(content, isLoading) == Trim(content) = <<>> \/ isLoading

\* const apiMessages = [system, ...messages.map(...), user]
ApiMessages(messages, content) ==
    <<SystemMessage>> \o messages \o <<UserMessage(content)>>

\* The state of one accepted sendMessage call at its first await (fetch).
\* deltas: the texts found in the streamed records so far; base: the
\* conversation when the call was made.
NewRequest(h, content) ==
    [pc |-> "fetching",
     content |-> Trim(content),
     apiMessages |-> ApiMessages(h.view.messages, content),
     fullContent |-> <<>>,
     deltas |-> <<>>,
     fetches |-> 1,
     result |-> "none",
     base |-> h.messages]

\* sendMessage(content), up to its first await.
SendMessage(h, content) ==
    LET c == [h EXCEPT !.calls = @ + 1, !.lastContent = content,
                       !.cleared = FALSE] IN
    IF SendIgnored(content, h.view.isLoading)
    THEN c
    ELSE [c EXCEPT !.messages = Append(@, UserMessage(content)),
                   !.isLoading = TRUE,
                   !.error = NULL,
                   !.requests = Append(@, NewRequest(h, content))]

\* clearMessages()
ClearMessages(h) ==
    [h EXCEPT !.messages = <<>>, !.error = NULL, !.cleared = TRUE]

\* A finally block that leaves isLoading as it is.
Finally_Nothing(h) == h

\* finally { setIsLoading(false) }
Finally(h) == [h EXCEPT !.isLoading = FALSE]

\* catch (err) { setError(error); onError?.(error) }
Catch(h, message) == [h EXCEPT !.error = message, !.onErrorCalls = @ + 1]

\* The request leaves sendMessage: its try block returned or threw.
Finish(h, i, result) ==
    [h EXCEPT !.requests[i].pc = "done", !.requests[i].result = result]

\* sendMessage from a throw inside the try block to its end.
FailRequest(h, i, message) == Finally(Catch(Finish(h, i, "failure"), message))

\* throw new Error(errorData.error || `HTTP error ${response.status}`), or
\* the rejection of fetch itself.
ErrorText(outcome) ==
    IF outcome.kind = "network" THEN "Failed to fetch"
    ELSE Or(outcome.error, "HTTP error 429")

\* data.choices?.[0]?.message?.content || ''
AssistantContent(outcome) == IF outcome.hasContent THEN outcome.content ELSE <<>>

\* sendNormalRequest from the settling of fetch, and sendMessage to its end.
NormalSettle(h, i, outcome) ==
    IF outcome.kind = "ok"
    THEN Finally([Finish(h, i, "success") EXCEPT
                      !.messages = Append(@, AssistantMessage(AssistantContent(outcome))),
                      !.requests[i].fullContent = AssistantContent(outcome),
                      !.onMessageCalls = @ + 1])
    ELSE FailRequest(h, i, ErrorText(outcome))

\* sendStreamingRequest from the settling of fetch to its first read: the
\* empty assistant message is appended.
StreamOpen(h, i, outcome) ==
    IF outcome.kind = "ok"
    THEN [h EXCEPT !.messages = Append(@, AssistantMessage(<<>>)),
                   !.requests[i].pc = "reading"]
    ELSE FailRequest(h, i, ErrorText(outcome))

\* An update that appends a message for every delta.
UpdateLast_Append(prev, text) == Append(prev, AssistantMessage(text))

\* updated = [...prev]; updated[updated.length - 1] = {...}: on an empty
\* list index -1 is set, which adds no element.
UpdateLast(prev, text) ==
    IF prev = <<>> THEN prev ELSE [prev EXCEPT ![Len(prev)] = AssistantMessage(text)]

\* One iteration of the read loop of sendStreamingRequest on a read that
\* delivers one record line.
HookOnRead(h, i, line) ==
    LET d == OnChunk([IdleDecoder EXCEPT !.kind = "sendStreamingRequest",
                                         !.pc = "reading",
                                         !.fullContent = h.requests[i].fullContent],
                     Append(line, LF))
        r == [h EXCEPT !.requests[i].fullContent = d.fullContent,
                       !.requests[i].deltas = @ \o d.deltas]
    IN  IF d.deltas # <<>>
        THEN [r EXCEPT !.messages = UpdateLast(@, d.fullContent)]
        ELSE r

\* if (done) break; onMessage?.(finalMessage); and sendMessage to its end.
HookReadDone(h, i) ==
    Finally([Finish(h, i, "success") EXCEPT !.onMessageCalls = @ + 1])

\* --------------------------------------------------------- hook actions

\* The caller calls sendMessage through the callback of the last render.
SendCall(Contents) ==
    /\ hook.calls < MaxSends
    /\ \E content \in Contents : hook' = SendMessage(hook, content)
    /\ UNCHANGED <<session, decoder>>

\* A call at any moment.
CallSendMessage == SendCall(ContentValues)

\* A call made when the previous one has finished and the component has
\* re-rendered.
CallSendMessageAtRest ==
    /\ InFlight(hook) = {}
    /\ hook.view = CurrentView(hook)
    /\ SendCall(ContentValues)

\* The caller calls clearMessages when there is something to clear.
CallClearMessages ==
    /\ hook.messages # <<>> \/ hook.error # NULL
    /\ hook' = ClearMessages(hook)
    /\ UNCHANGED <<session, decoder>>

\* The component re-renders: a new sendMessage callback closes over the
\* current state.
Render ==
    /\ hook.view # CurrentView(hook)
    /\ hook' = [hook EXCEPT !.view = CurrentView(hook)]
    /\ UNCHANGED <<session, decoder>>

FetchSettles ==
    /\ \E i \in InFlight(hook), outcome \in FetchOutcomes :
         /\ hook.requests[i].pc = "fetching"
         /\ hook' = IF hook.stream THEN StreamOpen(hook, i, outcome)
                                   ELSE NormalSettle(hook, i, outcome)
    /\ UNCHANGED <<session, decoder>>

ReadOf(Records) ==
    /\ \E i \in InFlight(hook), line \in Records :
         /\ hook.requests[i].pc = "reading"
         /\ Len(hook.requests[i].deltas) < MaxReads
         /\ hook' = HookOnRead(hook, i, line)
    /\ UNCHANGED <<session, decoder>>

BodyRead == ReadOf(OverlapRecords)

BodyReadInOrder == ReadOf(HookRecords)

BodyReadDone ==
    /\ \E i \in InFlight(hook) :
         /\ hook.requests[i].pc = "reading"
         /\ hook' = HookReadDone(hook, i)
    /\ UNCHANGED <<session, decoder>>

\* reader.read() rejects: the stream failed.
BodyReadFails ==
    /\ \E i \in InFlight(hook) :
         /\ hook.requests[i].pc = "reading"
         /\ hook' = FailRequest(hook, i, "stream failed")
    /\ UNCHANGED <<session, decoder>>

\* ------------------------------------------------------ the specifications

\* The relay: one session of the Express proxy.
Init ==
    /\ session = [s \in SessionIds |-> IdleSession]
    /\ decoder = IdleDecoder
    /\ hook = IdleHook

Next ==
    \E s \in {1} :
        \/ ChatRequest(s)
        \/ StreamRequest(s)
        \/ UtilityRequest(s)
        \/ UpstreamSettles(s)
        \/ UpstreamData(s)
        \/ UpstreamEnd(s)
        \/ UpstreamError(s)
        \/ ClientClose(s)
        \/ ClientReceives(s)

Spec == Init /\ [][Next]_vars

\* A stream decoder reading one upstream record stream, split into reads
\* in every possible way.
InitDecode ==
    /\ session = [s \in SessionIds |-> IdleSession]
    /\ \E kind \in DecoderKinds, lines \in UpstreamStreams :
         decoder = StartDecoder(kind, lines)
    /\ hook = IdleHook

NextDecode ==
    \/ DecoderRead
    \/ DecoderReadDone
    \/ DecoderReadFails

SpecDecode == InitDecode /\ [][NextDecode]_vars

\* Two relay requests in flight at once, their events interleaved in every
\* order. Each carries a valid body; the upstream of request s emits only
\* SessionChunk(s).
ConcurrentMessages == {[kind |-> "array", items |-> <<"u1">>]}

ConcurrentOutcomes ==
    {o \in Outcomes :
        \/ o.kind = "unreachable"
        \/ o.kind = "ok" /\ o.data.choices # <<>> /\ o.data.model = UNDEF
                         /\ o.data.usage = UNDEF
        \/ o.kind = "rejected" /\ o.status = 429 /\ o.data.error = "rate limited"}

SessionChunk(s) == IF s = 1 THEN "c1" ELSE "c2"

NextConcurrent ==
    \E s \in SessionIds :
        \/ ChatRequestOf(s, ConcurrentMessages, {UNDEF}, {NoOptions}, {NoHeaders})
        \/ StreamRequestOf(s, ConcurrentMessages, {UNDEF}, {NoOptions}, {NoHeaders})
        \/ UpstreamSettlesOf(s, ConcurrentOutcomes)
        \/ UpstreamDataOf(s, {SessionChunk(s)})
        \/ UpstreamEnd(s)
        \/ UpstreamError(s)
        \/ ClientClose(s)
        \/ ClientReceives(s)

SpecConcurrent == Init /\ [][NextConcurrent]_vars

\* One relay request on any of the five endpoints, with a valid body and
\* every combination of the two credential headers.
NextCredential ==
    \E s \in {1} :
        \/ ChatRequestOf(s, ConcurrentMessages, ModelValues, {NoOptions}, HeaderValues)
        \/ StreamRequestOf(s, ConcurrentMessages, ModelValues, {NoOptions}, HeaderValues)
        \/ UtilityRequestOf(s, {"some text"}, HeaderValues)
        \/ UpstreamSettlesOf(s, ConcurrentOutcomes)

SpecCredential == Init /\ [][NextCredential]_vars

\* One request to /api/chat or /api/chat/stream with an array for messages
\* and every combination of the optional body fields.
ArrayMessages == {m \in MessagesValues : m.kind = "array"}

NextPayload ==
    \E s \in {1} :
        \/ ChatRequestOf(s, ArrayMessages, ModelValues, OptionValues, {NoHeaders})
        \/ StreamRequestOf(s, ArrayMessages, ModelValues, OptionValues, {NoHeaders})
        \/ UpstreamSettlesOf(s, ConcurrentOutcomes)

SpecPayload == Init /\ [][NextPayload]_vars

\* One useChat hook instance, in either mode, with its caller's calls, its
\* renders and the events of its requests interleaved in every order.
InitHook ==
    /\ session = [s \in SessionIds |-> IdleSession]
    /\ decoder = IdleDecoder
    /\ \E stream \in BOOLEAN : hook = [IdleHook EXCEPT !.stream = stream]

NextHook ==
    \/ CallSendMessage
    \/ CallClearMessages
    \/ Render
    \/ FetchSettles
    \/ BodyRead
    \/ BodyReadDone
    \/ BodyReadFails

SpecHook == InitHook /\ [][NextHook]_vars

\* The hook used sequentially: each sendMessage is called after the previous
\* one finished and the component re-rendered; clearMessages is not called.
NextHookSequential ==
    \/ CallSendMessageAtRest
    \/ Render
    \/ FetchSettles
    \/ BodyReadInOrder
    \/ BodyReadDone
    \/ BodyReadFails

SpecHookSequential == InitHook /\ [][NextHookSequential]_vars

\* ================================================================= claims

EmptyArray == [kind |-> "array", items |-> <<>>]

\* C1 (as claimed): on /api/chat and /api/chat/stream a request whose
\* messages is an empty array is answered 400 and no upstream call is issued.
C1_EmptyMessagesRejected ==
    \A s \in SessionIds :
        (/\ session[s].pc # "idle"
         /\ session[s].endpoint \in {"chat", "stream"}
         /\ session[s].messages = EmptyArray)
        => (session[s].status = 400 /\ session[s].upstreamCalls = 0)

\* The payloads C2 calls failing: messages missing or not an array; text or
\* prompt missing.
PayloadFailsValidation(x) ==
    IF x.endpoint \in {"chat", "stream"}
    THEN x.messages.kind # "array"
    ELSE x.text = UNDEF

\* C2: a request that fails validation is answered once, with status 400 and
\* a JSON {error} body; no upstream call is issued, and on the streaming
\* endpoint no streaming header is set and no byte written.
C2_ValidationFailureIs400 ==
    \A s \in SessionIds :
        (session[s].pc # "idle" /\ PayloadFailsValidation(session[s]))
        => (/\ session[s].pc = "finished"
            /\ session[s].status = 400
            /\ session[s].body.kind = "error"
            /\ ~Falsy(session[s].body.error)
            /\ session[s].responses = 1
            /\ session[s].upstreamCalls = 0
            /\ ~session[s].sseHeaders
            /\ session[s].sink = <<>>)

C2_Witness ==
    \E s \in SessionIds :
        /\ session[s].endpoint = "stream"
        /\ session[s].messages.kind = "string"
        /\ session[s].status = 400

\* A buffered session that upstream rejected with a body {error: m}.
ChatRejectedWithError(x) ==
    /\ x.endpoint = "chat"
    /\ x.pc = "finished"
    /\ x.outcome.kind = "rejected"
    /\ x.outcome.data.kind = "object"
    /\ x.outcome.data.error # UNDEF

\* C3 (as claimed): on /api/chat an upstream rejection with status s and
\* body {error: m} is answered with status s and a body whose error is m.
C3_RejectionPassedThrough ==
    \A s \in SessionIds :
        ChatRejectedWithError(session[s])
        => (/\ session[s].status = session[s].outcome.status
            /\ session[s].body.kind = "error"
            /\ session[s].body.error = session[s].outcome.data.error)

\* C3 (amended): the status is always upstream's; the error is m when m is
\* not empty, and the generic "API request failed" when m is empty.
C3_RejectionPassedThroughUnlessEmpty ==
    \A s \in SessionIds :
        ChatRejectedWithError(session[s])
        => (/\ session[s].status = session[s].outcome.status
            /\ session[s].responses = 1
            /\ session[s].body.kind = "error"
            /\ session[s].body.error =
                   IF session[s].outcome.data.error = ""
                   THEN "API request failed"
                   ELSE session[s].outcome.data.error)

C3_Witness ==
    \E s \in SessionIds :
        /\ ChatRejectedWithError(session[s])
        /\ session[s].outcome.status = 429
        /\ session[s].status = 429
        /\ session[s].body.error = "rate limited"

\* C4 (as claimed): on /api/chat/stream an upstream rejection with status s
\* before any byte was written is answered with status s and upstream's
\* error message.
C4_StreamRejectionPassedThrough ==
    \A s \in SessionIds :
        (/\ session[s].endpoint = "stream"
         /\ session[s].pc = "finished"
         /\ session[s].outcome.kind = "rejected"
         /\ session[s].outcome.data.kind = "object"
         /\ ~Falsy(session[s].outcome.data.error))
        => (/\ session[s].status = session[s].outcome.status
            /\ session[s].body.error = session[s].outcome.data.error)

\* A streaming session whose upstream call succeeded.
Forwarding(x) == x.endpoint = "stream" /\ x.outcome.kind = "ok"

SinkFollowsUpstream ==
    \A s \in SessionIds :
        Forwarding(session[s])
        => (/\ IsPrefix(session[s].sink, session[s].received)
            /\ session[s].streamEnd = "end" => session[s].sink = session[s].received)

SinkOnlyGrows ==
    \A s \in SessionIds : IsPrefix(session[s].sink, session'[s].sink)

\* C9: in a streaming session the chunks written to the client sink are at
\* every moment a prefix of the chunks received from upstream, unmodified
\* and in order; nothing written is retracted; and when upstream ends
\* normally the two sequences are equal.
C9_SinkIsPrefixOfUpstream == [](SinkFollowsUpstream) /\ [][SinkOnlyGrows]_vars

C9_Witness ==
    \E s \in SessionIds :
        /\ Forwarding(session[s])
        /\ session[s].streamEnd = "end"
        /\ session[s].sink = <<"c1", "c2">>

\* C10 (as claimed): after the client connection has closed no write is
\* attempted on the client sink.
C10_NoWriteAfterClientClose ==
    \A s \in SessionIds : session[s].lateWrites = 0

\* ------------------------------------------------------------- decoders

\* C5 (as claimed): however the bytes of the records Hel, lo, [DONE] are
\* split across reads, the decoder produces the deltas "Hel", "lo".
C5_DeltasIndependentOfSplit ==
    (decoder.pc = "returned" /\ decoder.lines = <<RecHel, RecLo, RecDone>>)
    => decoder.deltas = <<TextHel, TextLo>>

\* A record with the prefix whose payload is neither the sentinel nor JSON.
Malformed(line) ==
    /\ StartsWithPrefix(line)
    /\ Payload(line) # Sentinel
    /\ ~JSONParse(Payload(line)).ok

\* The records before the first sentinel.
BeforeSentinel(lines) ==
    LET done == {i \in 1..Len(lines) : lines[i] = RecDone} IN
    IF done = {} THEN lines ELSE SubSeq(lines, 1, Min(done) - 1)

\* The text a decoder of this kind finds in one record (empty if none).
RecordText(kind, line) ==
    IF ~StartsWithPrefix(line) \/ Payload(line) = Sentinel THEN <<>>
    ELSE LET p == JSONParse(Payload(line)) IN
         IF ~p.ok \/ p.v.t = "null" THEN <<>> ELSE ToText(Extract(kind, p.v))

\* The non-empty texts of the records, in order.
RecordTexts(kind, lines) ==
    SelectSeq([i \in 1..Len(lines) |-> RecordText(kind, lines[i])],
              LAMBDA t : t # <<>>)

C7_SentinelTerminates ==
    decoder.sawDone => (decoder.lateDeltas = 0 /\ ~decoder.lateRead)

\* The stub upstream of one request: its answer is made of these fragments.
StubAnswers == UNION {[1..n -> {TextHel, TextLo}] : n \in 1..2}

\* The stub's streaming answer: one record per fragment, then the sentinel.
StubStream(frags) ==
    [i \in 1..Len(frags) |-> ContentRecord(frags[i])] \o <<RecDone>>

\* The stub's buffered answer: the whole text as the first choice's content.
StubBuffered(frags) ==
    [kind |-> "object", choices |-> <<Concat(frags)>>, model |-> UNDEF,
     usage |-> UNDEF, error |-> UNDEF]

\* C8 (as claimed): the concatenation of the deltas decoded from the relayed
\* stream equals the content /api/chat returns for the same request.
C8_StreamEqualsBuffered ==
    \A frags \in StubAnswers :
        (decoder.pc = "returned" /\ decoder.lines = StubStream(frags))
        => Concat(decoder.deltas) = ChatResult(StubBuffered(frags), UNDEF).content

\* C11 (as claimed): when the client of a streaming session has disconnected,
\* the upstream read is cancelled and the upstream connection released
\* within one read cycle: no second chunk is taken from an upstream
\* connection that is still open after the disconnect.
C11_DisconnectReleasesUpstream ==
    \A s \in SessionIds :
        session[s].lateWrites >= 2 => ~session[s].upstreamOpen

\* C12: once a byte has been written to the client sink of a streaming
\* session, no JSON error body and no error status is ever sent on it; a
\* later failure only closes the sink.
C12_NoErrorBodyAfterFirstByte ==
    \A s \in SessionIds :
        (session[s].endpoint = "stream" /\ session[s].sink # <<>>)
        => /\ session[s].body = NoBody
           /\ session[s].responses = 0
           /\ session[s].status = 200

C12_Witness ==
    \E s \in SessionIds :
        /\ session[s].sink # <<>>
        /\ session[s].streamEnd = "error"
        /\ session[s].ends = 1
        /\ session[s].body = NoBody

\* The upstream body stream of a forwarding session is over, by "end" or by
\* "error".
StreamIsOver(x) == Forwarding(x) /\ x.streamEnd \in {"end", "error"}

SinkClosedOnce ==
    \A s \in SessionIds :
        /\ StreamIsOver(session[s]) => session[s].ends = 1
        /\ session[s].endpoint = "stream" => session[s].ends <= 1

NoWriteAfterClose ==
    \A s \in SessionIds :
        session[s].ends >= 1 => session'[s].sink = session[s].sink

\* C13: when the upstream stream of a forwarding session ends or fails, the
\* client sink is closed in that same step, it is closed exactly once, and
\* nothing is written to it after the close.
C13_SinkClosedOnceAndLast == [](SinkClosedOnce) /\ [][NoWriteAfterClose]_vars

C13_Witness ==
    \E s \in SessionIds :
        /\ session[s].streamEnd = "error"
        /\ session[s].ends = 1
        /\ Len(session[s].sink) = 2
        /\ ~session[s].clientOpen

\* A buffered request that passed validation and whose upstream call settled.
ValidChatSettled(x) ==
    /\ x.endpoint = "chat"
    /\ x.messages.kind = "array"
    /\ x.messages.items # <<>>
    /\ x.outcome.kind # "none"

\* C14 (as claimed): a valid /api/chat request gets exactly one response for
\* every upstream outcome: success with or without a first choice, rejection
\* with any status and body (empty and null bodies too), unreachable, timeout.
C14_ChatAnswersExactlyOnce ==
    \A s \in SessionIds :
        ValidChatSettled(session[s])
        => session[s].responses = 1 /\ session[s].ends = 1

\* An upstream call that failed without any response.
FailedWithoutResponse(x) ==
    /\ x.endpoint \in {"chat", "stream"}
    /\ x.outcome.kind \in {"unreachable", "timeout"}

\* C15: when the upstream call of /api/chat or /api/chat/stream fails without
\* a response (unreachable, or the 120 s timeout), before any byte reached
\* the client, the relay answers once with a JSON {error} body and status
\* 500 or 502.
C15_NoResponseFailureIsJsonError ==
    \A s \in SessionIds :
        FailedWithoutResponse(session[s])
        => /\ session[s].status \in {500, 502}
           /\ session[s].body.kind = "error"
           /\ session[s].body.error # UNDEF
           /\ session[s].responses = 1
           /\ session[s].sink = <<>>

C15_Witness ==
    \E s \in SessionIds :
        /\ session[s].endpoint = "stream"
        /\ session[s].outcome.kind = "timeout"
        /\ session[s].deadline = TimeoutMs
        /\ session[s].body = ErrorBody("Internal server error")

\* A chunk written for a connected client that it has not taken yet.
Undelivered(x) == x.clientOpen /\ x.delivered < Len(x.sink)

NoPullWhileUndelivered ==
    \A s \in SessionIds :
        Undelivered(session[s]) => session'[s].received = session[s].received

\* C16 (as claimed): while a write to the client is still undelivered the
\* relay takes no further chunk from upstream, so at most one chunk is ever
\* held undelivered.
C16_SlowClientBackpressures == [][NoPullWhileUndelivered]_vars

\* C17 (as claimed): every upstream call in flight, on each of the five
\* endpoints, runs under a deadline, so that a call upstream never answers
\* fails with a timeout and the client gets a response.
C17_EveryUpstreamCallHasDeadline ==
    \A s \in SessionIds :
        session[s].pc = "awaiting" => session[s].deadline > 0

\* Every chunk on the sink of a session came from that session's upstream,
\* and the sink holds exactly the chunks that session received.
OwnChunksOnly ==
    \A s \in SessionIds :
        /\ \A i \in 1..Len(session[s].sink) : session[s].sink[i] = SessionChunk(s)
        /\ session[s].sink = session[s].received

AtMostOneUpstreamCall == \A s \in SessionIds : session[s].upstreamCalls <= 1

\* A step that changes one session leaves every other session as it was.
OthersUntouched ==
    \A s, t \in SessionIds :
        (s # t /\ session'[s] # session[s]) => session'[t] = session[t]

\* C18: with two sessions running concurrently, under every interleaving, a
\* chunk of one session's upstream is written only to that session's sink,
\* each request issues at most one upstream call, and no event of one
\* session (result, error, closure) changes the response or state of the
\* other.
C18_SessionsIsolated ==
    [](OwnChunksOnly /\ AtMostOneUpstreamCall) /\ [][OthersUntouched]_vars

C18_Witness ==
    /\ session[1].endpoint = "stream"
    /\ session[1].sink = <<"c1">>
    /\ session[1].streamEnd = "error"
    /\ session[2].pc = "streaming"
    /\ session[2].sink = <<"c2", "c2">>

HeadersBeforeWrite ==
    \A s \in SessionIds :
        Len(session'[s].sink) > Len(session[s].sink)
        => session[s].endpoint = "stream" /\ session[s].sseHeaders

\* C19: in every execution of /api/chat/stream the three streaming headers
\* are already set on the response when a step writes the first, or any,
\* upstream byte to it.
C19_HeadersSetBeforeFirstByte == [][HeadersBeforeWrite]_vars

C19_Witness ==
    \E s \in SessionIds :
        /\ session[s].endpoint = "stream"
        /\ session[s].sseHeaders
        /\ Len(session[s].sink) = 1
        /\ session[s].delivered = 1
        /\ session[s].status = 200

\* The client supplied the header: it is present and has a value.
Supplied(h) == h.present /\ h.parts # <<>>

\* C20 (as claimed): the bearer credential of the outbound request is the
\* value of the x-api-key header when the client supplied that header, else
\* the value after "Bearer " of the Authorization header, and the default
\* key when the client supplied neither.
C20_CredentialIsClientToken ==
    \A s \in SessionIds :
        session[s].upstreamCalls >= 1
        => LET h == session[s].headers IN
           /\ Supplied(h.xApiKey) => session[s].credential = h.xApiKey.parts
           /\ (~Supplied(h.xApiKey) /\ StartsWithBearer(h.authorization))
              => session[s].credential = Tail(h.authorization.parts)
           /\ (~Supplied(h.xApiKey) /\ ~Supplied(h.authorization))
              => session[s].credential = DefaultKey

\* The header value the credential is taken from; <<>> when there is none.
ChosenHeader(h) ==
    IF Supplied(h.xApiKey)
    THEN h.xApiKey.parts
    ELSE IF Supplied(h.authorization) THEN h.authorization.parts ELSE <<>>

\* C20 (amended): the credential is taken from the x-api-key header when
\* the client supplied it, else from the Authorization header; a leading
\* "Bearer " is removed from whichever value is taken, any other value is
\* used whole; when the client supplied neither, the default key is used.
C20_CredentialFromHeaders ==
    \A s \in SessionIds :
        session[s].upstreamCalls >= 1
        => LET v == ChosenHeader(session[s].headers) IN
           session[s].credential =
               IF v = <<>> THEN DefaultKey
               ELSE IF v[1] = "Bearer " THEN Tail(v) ELSE v

C20_Witness ==
    \E s \in SessionIds :
        /\ session[s].pc = "finished"
        /\ session[s].upstreamCalls = 1
        /\ session[s].headers.xApiKey = Header(<<"key-x">>)
        /\ session[s].headers.authorization = Header(<<"Bearer ", "tok-a">>)
        /\ session[s].credential = <<"key-x">>

\* The value a body field has in the outbound request: the client's when the
\* client sent the field, the default otherwise.
Effective(v, d) == IF v # UNDEF THEN v ELSE d

\* C21: the outbound body of /api/chat and /api/chat/stream carries the
\* client's messages unchanged, and model, temperature and max_tokens as the
\* client sent them or, where omitted, "gpt-4o", 0.7 and 2000; stream is
\* false on /api/chat and true on /api/chat/stream.
C21_PayloadDefaults ==
    \A s \in SessionIds :
        (session[s].endpoint \in {"chat", "stream"} /\ session[s].upstreamCalls >= 1)
        => /\ session[s].payload.messages = session[s].messages
           /\ session[s].payload.model = Effective(session[s].model, "gpt-4o")
           /\ session[s].payload.temperature =
                  Effective(session[s].options.temperature, "0.7")
           /\ session[s].payload.max_tokens =
                  Effective(session[s].options.max_tokens, "2000")
           /\ session[s].payload.stream = (session[s].endpoint = "stream")

C21_Witness ==
    \E s \in SessionIds :
        /\ session[s].endpoint = "stream"
        /\ session[s].pc = "streaming"
        /\ session[s].options = [temperature |-> "0", max_tokens |-> UNDEF]
        /\ session[s].payload.temperature = "0"
        /\ session[s].payload.max_tokens = "2000"
        /\ session[s].payload.messages.items = <<"s1", "u1">>

\* A buffered call that upstream answered with a first choice.
ChatSucceeded(x) ==
    /\ x.endpoint = "chat"
    /\ x.outcome.kind = "ok"
    /\ x.outcome.data.choices # <<>>

\* C22: a successful buffered call is answered 200 with {content, model,
\* usage}: content is the first choice's, usage is upstream's, model is
\* upstream's when upstream names one and else the client's or the default.
C22_BufferedResultFields ==
    \A s \in SessionIds :
        ChatSucceeded(session[s])
        => /\ session[s].status = 200
           /\ session[s].responses = 1
           /\ session[s].body.kind = "result"
           /\ session[s].body.content = session[s].outcome.data.choices[1]
           /\ session[s].body.usage = session[s].outcome.data.usage
           /\ session[s].body.model =
                  IF session[s].outcome.data.model # UNDEF
                  THEN session[s].outcome.data.model
                  ELSE Effective(session[s].model, "gpt-4o")

C22_Witness ==
    \E s \in SessionIds :
        /\ ChatSucceeded(session[s])
        /\ session[s].model = UNDEF
        /\ session[s].outcome.data.model = "upstream-model"
        /\ session[s].body.model = "upstream-model"
        /\ session[s].body.usage = "usage-record"
        /\ session[s].body.content = "Hello"

\* What /api/chat answers to messages [system prompt, user text] when its
\* upstream call settles with the given outcome.
ChatAnswer(outcome) ==
    ChatSettle(ChatEntry(IdleSession, [kind |-> "array", items |-> <<"s1", "u1">>],
                         UNDEF, NoOptions, NoHeaders),
               outcome)

\* C26 (as claimed): for every upstream outcome that /api/chat answers, a
\* utility endpoint returns the status code /api/chat returns for it.
C26_UtilityStatusEqualsChat ==
    \A s \in SessionIds :
        (/\ session[s].endpoint \in Utilities
         /\ session[s].outcome.kind # "none"
         /\ ChatAnswer(session[s].outcome).responses = 1)
        => session[s].status = ChatAnswer(session[s].outcome).status

\* C23 (as claimed): every decoder yields the text of a record that carries
\* it only at choices[0].delta.content.
C23_NestedDeltaExtracted ==
    (/\ decoder.pc = "returned"
     /\ decoder.aligned
     /\ decoder.lines = <<RecDelta, RecDone>>)
    => decoder.deltas = <<TextLo>>

\* The decoder returned after reads that each delivered whole lines.
ReturnedAligned == decoder.pc = "returned" /\ decoder.aligned

\* The deltas are the non-empty texts of the prefixed, valid records, in
\* order, and the returned content is their concatenation.
DeltasAreRecordTexts ==
    /\ decoder.deltas = RecordTexts(decoder.kind, decoder.lines)
    /\ decoder.fullContent = Concat(decoder.deltas)

\* C24 (as claimed): on reads that deliver whole lines a decoder emits a
\* delta for exactly the lines with the prefix, a valid JSON payload and a
\* non-empty text, and returns the concatenation of the deltas.
C24_DeltaPerSignificantLine == ReturnedAligned => DeltasAreRecordTexts

\* No record follows the sentinel.
SentinelLast(lines) ==
    \A i \in 1..Len(lines) : lines[i] = RecDone => i = Len(lines)

\* C24 (amended): the same, on streams in which no record follows the
\* sentinel.
C24_DeltaPerSignificantLineToSentinel ==
    (ReturnedAligned /\ SentinelLast(decoder.lines)) => DeltasAreRecordTexts

C24_Witness ==
    /\ ReturnedAligned
    /\ decoder.kind = "agentChatStream"
    /\ decoder.lines = <<RecComment, RecEmpty, RecHel>>
    /\ decoder.deltas = <<TextHel>>
    /\ decoder.fullContent = TextHel

\* -------------------------------------------------------------- useChat

\* C25 (as claimed): a request of sendMessage that failed has been issued
\* again by the hook itself.
C25_FailedRequestRetried ==
    \A i \in 1..Len(hook.requests) :
        hook.requests[i].result = "failure" => hook.requests[i].fetches >= 2

\* C27 (as claimed): at most one request is in flight per hook instance; a
\* sendMessage call made while an earlier one has not finished sends nothing.
C27_SingleRequestInFlight == Cardinality(InFlight(hook)) <= 1

\* C28 (as claimed): after clearMessages the messages list stays empty until
\* the next sendMessage call.
C28_ClearedStaysEmpty == hook.cleared => hook.messages = <<>>

\* The requests that ended in the catch block.
Failed(h) == {i \in 1..Len(h.requests) : h.requests[i].result = "failure"}

LoadingFollowsRequests ==
    /\ InFlight(hook) = {} => ~hook.isLoading
    /\ hook.onErrorCalls = Cardinality(Failed(hook))
    /\ \A i \in 1..Len(hook.requests) :
         hook.requests[i].pc = "done" <=> hook.requests[i].result # "none"

\* What a step of sendMessage does to isLoading and error: its start, its
\* end by success, its end by failure, and a call with blank content.
SendMessageSteps ==
    /\ Len(hook'.requests) > Len(hook.requests)
       => hook'.isLoading /\ hook'.error = NULL
    /\ \A i \in InFlight(hook) :
         hook'.requests[i].pc = "done"
         => /\ ~hook'.isLoading
            /\ hook'.requests[i].result = "success"
               => /\ hook'.error = hook.error
                  /\ hook'.onErrorCalls = hook.onErrorCalls
            /\ hook'.requests[i].result = "failure"
               => /\ hook'.error # NULL
                  /\ hook'.onErrorCalls = hook.onErrorCalls + 1
    /\ (hook'.calls > hook.calls /\ Trim(hook'.lastContent) = <<>>)
       => /\ hook'.messages = hook.messages
          /\ hook'.isLoading = hook.isLoading
          /\ hook'.error = hook.error
          /\ hook'.requests = hook.requests

\* C29: isLoading becomes true when an accepted sendMessage starts its
\* request and false on every way the request finishes; a failure sets error
\* and calls onError exactly once, a success leaves error as the start set
\* it; a call with blank content changes no state and sends nothing.
C29_LoadingAndError == [](LoadingFollowsRequests) /\ [][SendMessageSteps]_vars

C29_Witness ==
    /\ hook.stream
    /\ Len(hook.requests) = 2
    /\ hook.requests[1].result = "failure"
    /\ hook.requests[2].result = "success"
    /\ hook.onErrorCalls = 1
    /\ ~hook.isLoading
    /\ Trim(hook.lastContent) # <<>>

\* The user message and the assistant message an exchange ends with.
Exchange(r) ==
    <<[role |-> "user", content |-> r.content], AssistantMessage(r.fullContent)>>

Trimmed(t) == t # <<>> /\ Head(t) # " " /\ t[Len(t)] # " "

SequentialConversation ==
    \A i \in 1..Len(hook.requests) :
        LET r == hook.requests[i] IN
        /\ Trimmed(r.content)
        /\ r.apiMessages =
               <<SystemMessage>> \o r.base \o <<[role |-> "user", content |-> r.content]>>
        /\ hook.stream => r.fullContent = Concat(r.deltas)
        /\ (r.result = "success" \/ r.pc = "reading")
           => IsPrefix(r.base \o Exchange(r), hook.messages)
        /\ (i = Len(hook.requests) /\ (r.result = "success" \/ r.pc = "reading"))
           => hook.messages = r.base \o Exchange(r)

\* The streamed response text of a request only grows.
ContentOnlyGrows ==
    \A i \in 1..Len(hook.requests) :
        IsPrefix(hook.requests[i].fullContent, hook'.requests[i].fullContent)

\* C30: with sendMessage used sequentially, the messages sent upstream are
\* the system prompt, the conversation so far in order, and the new trimmed
\* user message; after a successful exchange in either mode the conversation
\* is what it was, then that user message, then one assistant message with
\* the full response, which in streaming mode is the concatenation of the
\* deltas and grows monotonically.
C30_SequentialConversation ==
    [](SequentialConversation) /\ [][ContentOnlyGrows]_vars

C30_Witness ==
    /\ hook.stream
    /\ Len(hook.requests) = 2
    /\ hook.requests[1].result = "success"
    /\ hook.requests[2].result = "success"
    /\ hook.requests[2].fullContent = TextHel \o TextLo
    /\ hook.requests[2].content = <<"h", "i">>
    /\ Len(hook.requests[2].apiMessages) = 4
    /\ Len(hook.messages) = 4

====
